---------------------------- MODULE Spec2Model ----------------------------
(***************************************************************************)
(* Spreadsheet-to-record extraction of Goravel-Papa.                       *)
(*                                                                         *)
(* Two request handlers are modelled, each with its two extraction         *)
(* routines:                                                               *)
(*   indexHandler (main.go)          openLocalCustFile, openLocalProductFile*)
(*   HomeController.Index            openURLCust, openURLItem              *)
(*                                                                         *)
(* A Go string is a TLA+ string, a row ([]string) a sequence of strings    *)
(* (Go index k is TLA+ index k + 1), a nil slice the empty sequence.       *)
(* The spreadsheet library and the network are the environment: every call *)
(* into them (filepath.Abs, http.Get, excelize.OpenFile / OpenReader,      *)
(* GetSheetList, GetRows, template parsing and execution) is resolved by a *)
(* nondeterministic choice of its outcome at the step that makes the call. *)
(***************************************************************************)
EXTENDS Integers, Sequences, FiniteSets, TLC

VARIABLES
    handler,     \* the handler serving the request: "none", "indexHandler", "Index"
    pc,          \* the handler's position: "idle", "cust", "product", "template", "done"
    fn,          \* the extraction routine being run, "none" outside one
    step,        \* the routine's position
    fetch,       \* outcome of the routine's http.Get: "none", "ok", "status", "transport"
    handle,      \* the routine's document handle exlz: "none", "open", "closed"
    closes,      \* number of exlz.Close() calls made by the routine
    deferred,    \* whether the routine has registered its deferred Close
    tried,       \* sheet names passed to GetRows by the routine, in call order
    unreadable,  \* tried sheets that exist in the document but whose read failed
    matched,     \* the sheet whose GetRows succeeded, "none" if none did
    rows,        \* the rows GetRows returned for the matched sheet
    err,         \* the routine's local variable err
    ret,         \* what the routine handed to its caller
    data,        \* the handler's local: customer records
    dataProduct, \* the handler's local: product records
    failed,      \* routines of this request that ended without a record set
    response,    \* the HTTP answer: "none", "page", "500", "panic"
    rendered     \* the arguments the page renderer was invoked with, <<>> if it was not

vars == <<handler, pc, fn, step, fetch, handle, closes, deferred, tried,
          unreadable, matched, rows, err, ret, data, dataProduct, failed,
          response, rendered>>

---------------------------------------------------------------------------
(* Bounds of the model *)

\* longest row of a sheet (the customer map reads columns 0..10)
MaxRowLen == 12
\* rows of a sheet beyond the routine's header rows
MaxDataRows == 2
\* sheets of one document that exist but cannot be read
MaxUnreadable == 1

---------------------------------------------------------------------------
(* Program constants *)

\* openLocalCustFile and openURLCust skip the first row (isFirstRow)
CustHeaderRows == 1
\* openLocalProductFile: if index < 3 { continue }
ProductHeaderRows == 3
\* openURLItem: if index < 7 { continue }
ItemHeaderRows == 7

LocalFns == {"openLocalCustFile", "openLocalProductFile"}
URLFns == {"openURLCust", "openURLItem"}

\* the sheet names a routine passes to GetRows, in the order of the code
SheetCandidates(f) ==
    CASE f = "openLocalCustFile" -> <<"Data Base", "Database", "Sheet1", "Data">>
      [] f = "openLocalProductFile" ->
            <<"APL", "DaftarHarga", "Product", "Products", "Sheet2">>
      [] f = "openURLCust" -> <<"Sheet1">>
      [] f = "openURLItem" -> <<"DaftarHarga">>

HeaderRows(f) ==
    CASE f = "openLocalCustFile" -> CustHeaderRows
      [] f = "openLocalProductFile" -> ProductHeaderRows
      [] f = "openURLCust" -> CustHeaderRows
      [] f = "openURLItem" -> ItemHeaderRows

---------------------------------------------------------------------------
(* Error values.  names is the set of sheet names the message text holds. *)

NilErr == [kind |-> "nil", names |-> {}]

\* excelize's ErrSheetNotExist: "sheet <name> does not exist"
ErrSheetNotExist(name) == [kind |-> "SheetNotFound", names |-> {name}]

\* any other failure of GetRows on a sheet that exists
ErrRowRead == [kind |-> "RowReadError", names |-> {}]

ErrOpen == [kind |-> "OpenError", names |-> {}]

ErrPath == [kind |-> "PathResolutionError", names |-> {}]

\* fmt.Errorf("error getting rows from ... sheet: %v", err): the text of err
\* behind a fixed prefix
WrapRowsErr(e) == [kind |-> e.kind, names |-> e.names]

---------------------------------------------------------------------------
(* The pure helpers *)

\* a variant that passes the empty string through
handleNullValue_Identity(value) == value

handleNullValue(value) == IF value = "" THEN " " ELSE value

getRowValue(row, index) ==
    IF index < Len(row) THEN handleNullValue(row[index + 1]) ELSE " "

\* the loop body of openLocalCustFile
LocalCustRecord(row) ==
    [Branch    |-> getRowValue(row, 0),
     CustId    |-> getRowValue(row, 1),
     CustName  |-> getRowValue(row, 2),
     Alamat    |-> getRowValue(row, 3),
     Kota      |-> getRowValue(row, 4),
     SalesName |-> getRowValue(row, 5),
     Channel   |-> getRowValue(row, 6),
     Avg2023   |-> getRowValue(row, 7),
     Avg2024   |-> getRowValue(row, 8),
     Avg2025   |-> getRowValue(row, 9),
     Max       |-> getRowValue(row, 10)]

\* a variant that takes a row of 3 cells to hold the PPN column
ProductPPN_WrongBound(row) == IF Len(row) >= 3 THEN getRowValue(row, 3) ELSE ""

\* if len(row) > 3 { PPN = getRowValue(row, 3) } else { PPN = "" }
ProductPPN(row) == IF Len(row) > 3 THEN getRowValue(row, 3) ELSE ""

\* the loop body of openLocalProductFile
LocalProductRecord(row) ==
    [Code        |-> getRowValue(row, 0),
     NameProduct |-> getRowValue(row, 1),
     HNA         |-> getRowValue(row, 2),
     PPN         |-> ProductPPN(row)]

\* the loop body of openURLCust reads row[0] .. row[8] unguarded
URLCustRecord(row) ==
    [Branch    |-> handleNullValue(row[1]),
     CustId    |-> handleNullValue(row[2]),
     CustName  |-> handleNullValue(row[3]),
     Alamat    |-> handleNullValue(row[4]),
     Kota      |-> handleNullValue(row[5]),
     SalesName |-> handleNullValue(row[6]),
     Channel   |-> handleNullValue(row[7]),
     Avg2023   |-> handleNullValue(row[8]),
     Q4Avg2023 |-> handleNullValue(row[9])]

\* the loop body of openURLItem reads row[0] .. row[3] unguarded
URLItemRecord(row) ==
    [Code        |-> handleNullValue(row[1]),
     NameProduct |-> handleNullValue(row[2]),
     HNA         |-> handleNullValue(row[3]),
     PPN         |-> handleNullValue(row[4])]

\* the highest Go index the routine's loop body reads without a length check
UncheckedIndex(f) ==
    CASE f = "openURLCust" -> 8
      [] f = "openURLItem" -> 3
      [] OTHER -> -1

\* row[k] with k >= len(row) is a run-time panic (index out of range)
IndexPanics(f, row) == UncheckedIndex(f) >= Len(row)

BuildRecord(f, row) ==
    CASE f = "openLocalCustFile" -> LocalCustRecord(row)
      [] f = "openLocalProductFile" -> LocalProductRecord(row)
      [] f = "openURLCust" -> URLCustRecord(row)
      [] f = "openURLItem" -> URLItemRecord(row)

\* a variant that skips one row too many
SkipsRow_OffByOne(f, index) == index <= HeaderRows(f)

\* whether the row at Go index `index` is skipped by the loop
SkipsRow(f, index) == index < HeaderRows(f)

\* the Go indexes of the rows the loop builds a record from, ascending
RECURSIVE DataIndexes(_, _, _)
DataIndexes(f, index, n) ==
    IF index >= n THEN <<>>
    ELSE (IF SkipsRow(f, index) THEN <<>> ELSE <<index>>)
         \o DataIndexes(f, index + 1, n)

\* whether the loop of routine f over rs panics at some row
LoopPanics(f, rs) ==
    \E k \in 1..Len(rs) : ~SkipsRow(f, k - 1) /\ IndexPanics(f, rs[k])

\* for ... range rows { ...; exlData = append(exlData, rowData) }
ExtractRecords(f, rs) ==
    LET idx == DataIndexes(f, 0, Len(rs))
    IN  [i \in 1..Len(idx) |-> BuildRecord(f, rs[idx[i] + 1])]

---------------------------------------------------------------------------
(* The sheets the environment may hold *)

\* kind of the cell at row i (from 1), Go column j of a sheet with offset l0
CellText(i, j, l0) ==
    LET k == (2 * i + j + l0) % 4
    IN  IF k = 0 THEN ""
        ELSE IF k = 1 THEN " "
        ELSE "r" \o ToString(i) \o "c" \o ToString(j)

SheetRow(i, l0) ==
    [c \in 1..((l0 + i) % (MaxRowLen + 1)) |-> CellText(i, c - 1, l0)]

\* a sheet of r rows whose lengths run through 0..MaxRowLen from offset l0
Sheet(r, l0) == [i \in 1..r |-> SheetRow(i, l0)]

SheetsFor(f) ==
    { Sheet(r, l0) : r \in 0..(HeaderRows(f) + MaxDataRows), l0 \in 0..MaxRowLen }

---------------------------------------------------------------------------
(* Initial state and the calls *)

NoRet == [out |-> <<>>, err |-> NilErr, panic |-> "none"]

Init ==
    /\ handler = "none"
    /\ pc = "idle"
    /\ fn = "none"
    /\ step = "none"
    /\ fetch = "none"
    /\ handle = "none"
    /\ closes = 0
    /\ deferred = FALSE
    /\ tried = <<>>
    /\ unreadable = {}
    /\ matched = "none"
    /\ rows = <<>>
    /\ err = NilErr
    /\ ret = NoRet
    /\ data = <<>>
    /\ dataProduct = <<>>
    /\ failed = {}
    /\ response = "none"
    /\ rendered = <<>>

\* entering routine f: fresh locals
Call(f) ==
    /\ fn' = f
    /\ step' = IF f \in LocalFns THEN "path" ELSE "fetch"
    /\ fetch' = "none"
    /\ handle' = "none"
    /\ closes' = 0
    /\ deferred' = FALSE
    /\ tried' = <<>>
    /\ unreadable' = {}
    /\ matched' = "none"
    /\ rows' = <<>>
    /\ err' = NilErr
    /\ ret' = NoRet

\* leaving the routine: the deferred Close runs, then the caller gets the result
Return(out, e, panic) ==
    /\ step' = "returned"
    /\ ret' = [out |-> out, err |-> e, panic |-> panic]
    /\ handle' = IF deferred /\ handle = "open" THEN "closed" ELSE handle
    /\ closes' = IF deferred THEN closes + 1 ELSE closes

Customers(h) == IF h = "indexHandler" THEN "openLocalCustFile" ELSE "openURLCust"

Products(h) == IF h = "indexHandler" THEN "openLocalProductFile" ELSE "openURLItem"

\* a request arrives and the handler calls its customer extraction
Request(h) ==
    /\ pc = "idle"
    /\ handler' = h
    /\ pc' = "cust"
    /\ Call(Customers(h))
    /\ UNCHANGED <<data, dataProduct, failed, response, rendered>>


---------------------------------------------------------------------------
(* The steps of an extraction routine *)

HandlerVars == <<handler, pc, data, dataProduct, failed, response, rendered>>

\* filepath.Abs(filePath)
ResolvePath(ok) ==
    /\ step = "path"
    /\ IF ok
         THEN /\ step' = "open"
              /\ UNCHANGED <<ret, handle, closes>>
         ELSE Return(<<>>, ErrPath, "none")
    /\ UNCHANGED <<fn, fetch, deferred, tried, unreadable, matched, rows, err>>
    /\ UNCHANGED HandlerVars

\* data, err := getData(urlLink); if err != nil { panic(err) }
\* getData: a transport failure of http.Get panics; the status code is not read
GetData(outcome) ==
    /\ step = "fetch"
    /\ fetch' = outcome
    /\ IF outcome = "transport"
         THEN Return(<<>>, NilErr, "fetch")
         ELSE /\ step' = "open"
              /\ UNCHANGED <<ret, handle, closes>>
    /\ UNCHANGED <<fn, deferred, tried, unreadable, matched, rows, err>>
    /\ UNCHANGED HandlerVars

\* excelize.OpenFile / excelize.OpenReader; the local routines defer Close here
OpenDocument(ok) ==
    /\ step = "open"
    /\ IF ok
         THEN /\ handle' = "open"
              /\ deferred' = (fn \in LocalFns)
              /\ step' = IF fn \in LocalFns THEN "primary" ELSE "list"
              /\ err' = NilErr
              /\ UNCHANGED <<ret, closes>>
         ELSE /\ err' = ErrOpen
              /\ Return(<<>>, ErrOpen, "none")
              /\ UNCHANGED deferred
    /\ UNCHANGED <<fn, fetch, tried, unreadable, matched, rows>>
    /\ UNCHANGED HandlerVars

\* lst := exlz.GetSheetList(); if len(lst) == 0 { return nil, err }
\* the deferred Close is registered after this check
GetSheetList(empty) ==
    /\ step = "list"
    /\ IF empty
         THEN /\ Return(<<>>, err, "none")
              /\ UNCHANGED deferred
         ELSE /\ deferred' = TRUE
              /\ step' = "primary"
              /\ UNCHANGED <<ret, handle, closes>>
    /\ UNCHANGED <<fn, fetch, tried, unreadable, matched, rows, err>>
    /\ UNCHANGED HandlerVars

\* one call exlz.GetRows(name): the sheet is read, is absent, or exists and
\* fails to read; `after` is the step taken when the call failed
GetRows(name, after) ==
    /\ tried' = Append(tried, name)
    /\ \/ \E sheet \in SheetsFor(fn) :
            /\ rows' = sheet
            /\ matched' = name
            /\ err' = NilErr
            /\ step' = "build"
            /\ UNCHANGED <<unreadable, ret, handle, closes>>
       \/ /\ err' = ErrSheetNotExist(name)
          /\ after
          /\ UNCHANGED <<unreadable, rows, matched>>
       \/ /\ Cardinality(unreadable) < MaxUnreadable
          /\ unreadable' = unreadable \cup {name}
          /\ err' = ErrRowRead
          /\ after
          /\ UNCHANGED <<rows, matched>>
    /\ UNCHANGED <<fn, fetch, deferred>>
    /\ UNCHANGED HandlerVars

\* rows, err := exlz.GetRows(<primary name>)
\* the URL routines return its error; the local ones go on to the alternates
GetRowsPrimary ==
    /\ step = "primary"
    /\ GetRows(SheetCandidates(fn)[1],
               IF fn \in LocalFns
                 THEN step' = "alternate" /\ UNCHANGED <<ret, handle, closes>>
                 ELSE Return(<<>>, err', "none"))

\* for _, sheetName := range alternateNames { rows, err = exlz.GetRows(sheetName) ... }
GetRowsAlternate ==
    /\ step = "alternate"
    /\ Len(tried) < Len(SheetCandidates(fn))
    /\ GetRows(SheetCandidates(fn)[Len(tried) + 1],
               step' = "alternate" /\ UNCHANGED <<ret, handle, closes>>)

\* if !rowsFound { return nil, fmt.Errorf("error getting rows from ...: %v", err) }
SheetNotFound ==
    /\ step = "alternate"
    /\ Len(tried) = Len(SheetCandidates(fn))
    /\ Return(<<>>, WrapRowsErr(err), "none")
    /\ UNCHANGED <<fn, fetch, deferred, tried, unreadable, matched, rows, err>>
    /\ UNCHANGED HandlerVars

\* the row loop and the final return exlData, nil
BuildRecords ==
    /\ step = "build"
    /\ IF LoopPanics(fn, rows)
         THEN Return(<<>>, NilErr, "index")
         ELSE Return(ExtractRecords(fn, rows), NilErr, "none")
    /\ UNCHANGED <<fn, fetch, deferred, tried, unreadable, matched, rows, err>>
    /\ UNCHANGED HandlerVars

---------------------------------------------------------------------------
(* The handlers *)

\* the routine's call ended without a record set read from a sheet
ExtractionFailed == matched = "none" \/ ret.panic # "none"

\* data, err := <customer extraction>; if err != nil { 500 }; then the
\* product extraction is called
CustReturned ==
    /\ pc = "cust"
    /\ step = "returned"
    /\ failed' = IF ExtractionFailed THEN failed \cup {fn} ELSE failed
    /\ IF ret.panic # "none"
         THEN /\ response' = "panic"
              /\ pc' = "done"
              /\ UNCHANGED <<data, fn, step, fetch, handle, closes, deferred,
                             tried, unreadable, matched, rows, err, ret>>
         ELSE IF ret.err # NilErr
         THEN /\ response' = "500"
              /\ pc' = "done"
              /\ UNCHANGED <<data, fn, step, fetch, handle, closes, deferred,
                             tried, unreadable, matched, rows, err, ret>>
         ELSE /\ data' = ret.out
              /\ pc' = "product"
              /\ Call(Products(handler))
              /\ UNCHANGED response
    /\ UNCHANGED <<handler, dataProduct, rendered>>

\* dataProduct, err := <product extraction>; if err != nil { 500 }
ProductReturned ==
    /\ pc = "product"
    /\ step = "returned"
    /\ failed' = IF ExtractionFailed THEN failed \cup {fn} ELSE failed
    /\ IF ret.panic # "none"
         THEN /\ response' = "panic"
              /\ pc' = "done"
              /\ UNCHANGED dataProduct
         ELSE IF ret.err # NilErr
         THEN /\ response' = "500"
              /\ pc' = "done"
              /\ UNCHANGED dataProduct
         ELSE /\ dataProduct' = ret.out
              /\ pc' = "template"
              /\ UNCHANGED response
    /\ UNCHANGED <<handler, data, rendered, fn, step, fetch, handle, closes,
                   deferred, tried, unreadable, matched, rows, err, ret>>

\* indexHandler: template.ParseFiles, then tmpl.Execute with both record sets
\* Index: ctx.Response().View().Make("home.html", ...) with both record sets
RenderPage(parsed, executed) ==
    /\ pc = "template"
    /\ pc' = "done"
    /\ IF handler = "indexHandler" /\ ~parsed
         THEN /\ response' = "500"
              /\ UNCHANGED rendered
         ELSE /\ rendered' = <<[customer |-> data, product |-> dataProduct]>>
              /\ response' = IF handler = "indexHandler" /\ ~executed
                               THEN "500" ELSE "page"
    /\ UNCHANGED <<handler, data, dataProduct, failed, fn, step, fetch, handle,
                   closes, deferred, tried, unreadable, matched, rows, err, ret>>

\* the request is over; the next one starts from scratch
Finish ==
    /\ pc = "done"
    /\ handler' = "none"
    /\ pc' = "idle"
    /\ fn' = "none"
    /\ step' = "none"
    /\ fetch' = "none"
    /\ handle' = "none"
    /\ closes' = 0
    /\ deferred' = FALSE
    /\ tried' = <<>>
    /\ unreadable' = {}
    /\ matched' = "none"
    /\ rows' = <<>>
    /\ err' = NilErr
    /\ ret' = NoRet
    /\ data' = <<>>
    /\ dataProduct' = <<>>
    /\ failed' = {}
    /\ response' = "none"
    /\ rendered' = <<>>

Next ==
    \/ \E h \in {"indexHandler", "Index"} : Request(h)
    \/ \E ok \in BOOLEAN : ResolvePath(ok)
    \/ \E outcome \in {"ok", "status", "transport"} : GetData(outcome)
    \/ \E ok \in BOOLEAN : OpenDocument(ok)
    \/ \E empty \in BOOLEAN : GetSheetList(empty)
    \/ GetRowsPrimary
    \/ GetRowsAlternate
    \/ SheetNotFound
    \/ BuildRecords
    \/ CustReturned
    \/ ProductReturned
    \/ \E parsed, executed \in BOOLEAN : RenderPage(parsed, executed)
    \/ Finish

Spec == Init /\ [][Next]_vars

---------------------------------------------------------------------------
(* Vocabulary of the claims *)

\* the column each customer field is declared to come from
CustColumns ==
    [Branch |-> 0, CustId |-> 1, CustName |-> 2, Alamat |-> 3, Kota |-> 4,
     SalesName |-> 5, Channel |-> 6, Avg2023 |-> 7, Avg2024 |-> 8,
     Avg2025 |-> 9, Max |-> 10]

\* the column of each product field that follows the sentinel rule
ProductColumns == [Code |-> 0, NameProduct |-> 1, HNA |-> 2]

Sentinel == " "

\* the cell at Go column c is missing from the row, or is the empty string
AbsentOrEmpty(row, c) == c >= Len(row) \/ row[c + 1] = ""

\* the sentinel rule, stated on the sheet
SentinelRule(row, c) == IF AbsentOrEmpty(row, c) THEN Sentinel ELSE row[c + 1]

\* the record the documented rule prescribes for a row
ExpectedRecord(f, row) ==
    IF f = "openLocalCustFile"
      THEN [k \in DOMAIN CustColumns |-> SentinelRule(row, CustColumns[k])]
      ELSE [Code        |-> SentinelRule(row, 0),
            NameProduct |-> SentinelRule(row, 1),
            HNA         |-> SentinelRule(row, 2),
            PPN         |-> IF Len(row) >= 4 THEN SentinelRule(row, 3) ELSE ""]

\* routine f has returned a record set read from a sheet
Extracted(f) == fn = f /\ step = "returned" /\ matched # "none"

\* the sheet row that record i (from 1) of the returned set must come from
SourceRow(i) == rows[HeaderRows(fn) + i]

\* the records of the returned set that have a source row
Records == { i \in 1..Len(ret.out) : HeaderRows(fn) + i <= Len(rows) }

Max0(n) == IF n > 0 THEN n ELSE 0

SetOf(seq) == { seq[k] : k \in 1..Len(seq) }

---------------------------------------------------------------------------
(* C1 *)

\* C1 as stated: every field of every customer record returned by
\* openLocalCustFile is non-empty, is the sentinel " " exactly when its cell is
\* absent or empty, and is the cell verbatim otherwise.
C1_SentinelExactlyWhenAbsentOrEmpty ==
    Extracted("openLocalCustFile") =>
        \A i \in Records : \A k \in DOMAIN CustColumns :
            LET row == SourceRow(i)
                c == CustColumns[k]
                v == ret.out[i][k]
            IN  /\ v # ""
                /\ (v = Sentinel) <=> AbsentOrEmpty(row, c)
                /\ ~AbsentOrEmpty(row, c) => v = row[c + 1]

\* C1 amended: every field of every customer record returned by
\* openLocalCustFile is non-empty, is the sentinel " " whenever its cell is
\* absent or empty, and is the cell verbatim otherwise (so it is also " " when
\* the cell itself holds a single space).
C1_SentinelRule ==
    Extracted("openLocalCustFile") =>
        /\ Records = 1..Len(ret.out)
        /\ \A i \in Records : \A k \in DOMAIN CustColumns :
            LET row == SourceRow(i)
                c == CustColumns[k]
                v == ret.out[i][k]
            IN  /\ v # ""
                /\ AbsentOrEmpty(row, c) => v = Sentinel
                /\ ~AbsentOrEmpty(row, c) => v = row[c + 1]

\* a returned customer record whose row is short of column 10, holds an empty
\* cell, a single-space cell and a cell with text
C1_Witness ==
    /\ Extracted("openLocalCustFile")
    /\ \E i \in Records :
        LET row == SourceRow(i)
        IN  /\ Len(row) < 11
            /\ ret.out[i].Max = Sentinel
            /\ \E c \in 0..10 : c < Len(row) /\ row[c + 1] = ""
            /\ \E c \in 0..10 : c < Len(row) /\ row[c + 1] = " "
            /\ \E c \in 0..10 : c < Len(row) /\ row[c + 1] \notin {"", " "}

---------------------------------------------------------------------------
(* C2 *)

\* C2: in every product record returned by openLocalProductFile, PPN is ""
\* when the row has 3 or fewer cells, and with 4 or more cells it is cell 3
\* verbatim when non-empty and " " when cell 3 is empty; Code, NameProduct and
\* HNA follow the sentinel rule and are never "".
C2_ProductPPN ==
    Extracted("openLocalProductFile") =>
        /\ Records = 1..Len(ret.out)
        /\ \A i \in Records :
            LET row == SourceRow(i)
                rec == ret.out[i]
            IN  /\ Len(row) <= 3 => rec.PPN = ""
                /\ Len(row) >= 4 =>
                      rec.PPN = IF row[4] = "" THEN Sentinel ELSE row[4]
                /\ \A k \in DOMAIN ProductColumns :
                      /\ rec[k] # ""
                      /\ rec[k] = SentinelRule(row, ProductColumns[k])

\* a returned product set with one record from a row of 3 cells (PPN "") and
\* one from a row of 4 cells
C2_Witness ==
    /\ Extracted("openLocalProductFile")
    /\ \E i, j \in Records :
        /\ Len(SourceRow(i)) = 3
        /\ ret.out[i].PPN = ""
        /\ Len(SourceRow(j)) = 4
        /\ ret.out[j].PPN # ""

---------------------------------------------------------------------------
(* C3 *)

\* C3: a local extraction over a matched sheet of R rows returns exactly
\* max(0, R - N) records, and the record at position i is the one prescribed
\* for the sheet row at position N + i (N = 1 for customers, 3 for products).
C3_RowOrder ==
    \A f \in LocalFns :
        Extracted(f) =>
            /\ Len(ret.out) = Max0(Len(rows) - HeaderRows(f))
            /\ \A i \in Records : ret.out[i] = ExpectedRecord(f, SourceRow(i))

\* a local extraction that returned two different records from a sheet with
\* more rows than header rows
C3_Witness ==
    /\ \E f \in LocalFns : Extracted(f)
    /\ Len(rows) = HeaderRows(fn) + 2
    /\ Len(ret.out) = 2
    /\ ret.out[1] # ret.out[2]
    /\ SourceRow(1) # SourceRow(2)

---------------------------------------------------------------------------
(* C4 *)

\* C4: in the local routines the candidates are attempted in the listed
\* order, the rows used are those of the first candidate that exists in the
\* document, no candidate is attempted after the match, and the call fails
\* with a sheet-not-found error only after every candidate was attempted and
\* none exists.
C4_FirstExistingCandidate ==
    fn \in LocalFns =>
        LET cand == SheetCandidates(fn)
        IN  /\ Len(tried) <= Len(cand)
            /\ \A k \in 1..Len(tried) : tried[k] = cand[k]
            /\ matched # "none" =>
                  /\ tried[Len(tried)] = matched
                  /\ unreadable = {}
            /\ (step = "returned" /\ ret.err.kind = "SheetNotFound") =>
                  /\ matched = "none"
                  /\ Len(tried) = Len(cand)
                  /\ unreadable = {}

---------------------------------------------------------------------------
(* C5 *)

\* C5: when no candidate sheet exists, the error the local routine returns
\* names every attempted sheet, not only the last one.
C5_ErrorListsAttempts ==
    (fn \in LocalFns /\ step = "returned" /\ handle # "none" /\ matched = "none") =>
        SetOf(tried) \subseteq ret.err.names

---------------------------------------------------------------------------
(* C6 *)

\* C6: a routine that has opened its document has closed it exactly once by
\* the time it returns, on every path.
C6_ClosedOnceOnReturn ==
    (step = "returned" /\ handle # "none") => (handle = "closed" /\ closes = 1)

---------------------------------------------------------------------------
(* C7 *)

\* C7: a call that returns to its caller without a record set read from a
\* usable sheet returns a non-nil error.
C7_FailureReturnsError ==
    (step = "returned" /\ ret.panic = "none" /\ matched = "none") =>
        ret.err # NilErr

---------------------------------------------------------------------------
(* C8 *)

\* C8: building a record never raises an index-out-of-range fault, whatever
\* the length of the row.
C8_NoIndexFault == ret.panic # "index"

---------------------------------------------------------------------------
(* C9 *)

\* C9: a fetch that fails by transport or by a non-2xx status is returned as
\* an error without the body being opened as a document, Index answers 500,
\* and nothing panics.
C9_FetchFailureIsError ==
    fetch \in {"transport", "status"} =>
        /\ step = "returned"
        /\ ret.panic = "none"
        /\ ret.err # NilErr
        /\ handle = "none"
        /\ pc = "done" => response = "500"

---------------------------------------------------------------------------
(* C10 *)

\* C10: the renderer is invoked only after both extractions succeeded, with
\* the complete record sets of both; when either extraction fails the
\* response is a 500 and the renderer is not invoked.
C10_RenderOnlyAfterBoth ==
    /\ rendered # <<>> =>
          /\ failed = {}
          /\ rendered[1] = [customer |-> data, product |-> dataProduct]
          /\ dataProduct = ret.out
    /\ (pc = "done" /\ failed # {}) => (response = "500" /\ rendered = <<>>)

=============================================================================
